---- MODULE Spec2Model ----
(***************************************************************************)
(* Model of solana_whale_watcher: the balance-delta extractor              *)
(* (extract_sol_changes) and the streaming observer (monitor_solana) of    *)
(* src/app/watcher/__init__.py, with the standalone script                 *)
(* src/app/watcher.py as its near-duplicate.                               *)
(*                                                                         *)
(* Two specifications share the module:                                    *)
(*   SpecExtract  one call of extract_sol_changes on every input of a      *)
(*                bounded set (the pure function's claims);                *)
(*   Spec         one run of monitor_solana against a nondeterministic     *)
(*                stream and a nondeterministic detail-lookup service.     *)
(***************************************************************************)
EXTENDS Integers, Sequences, FiniteSets, TLC

VARIABLES
    \* ---- one call of monitor_solana ----
    pc,                 \* position of the coroutine
    max_events,         \* argument
    threshold_SOL,      \* argument (a decimal, kept as an exact fraction)
    ws,                 \* the WebSocket connection: "none" | "open" | "closed"
    count,              \* qualifying-notification counter
    sol_changes_accum,  \* the accumulator list
    sig,                \* decoded signature of the notification being processed
    ret,                \* outcome: what the caller of monitor_solana gets
    in_flight,          \* the exception leaving through the async with ("" if none)
    delivered,          \* history: notifications received, with the lookup reply
    sent,               \* history: requests sent on the socket
    lookups,            \* history: number of get_transaction calls issued
    info_log,           \* history: events written by logging.info, in order
    connected_log,      \* history: number of "Connected to Solana WebSocket" lines
    error_log,          \* history: number of logging.error lines
    extract_calls,      \* history: number of extract_sol_changes calls made
    steps,              \* history: number of loop iterations that ended
    \* ---- one call of extract_sol_changes ----
    x_pc,               \* "off" | "call" | "returned" | "raised"
    x_meta,             \* argument meta: [pre_balances, post_balances, fee]
    x_keys,             \* argument account_keys
    x_out,              \* the returned list
    \* ---- delta / LAMPORTS_PER_SOL (package) and delta / 1e9 (script) ----
    f_pc,               \* "off" | "call" | "done"
    f_delta,            \* a lamport delta, as an unbounded integer
    f_pkg,              \* delta_SOL as src/app/watcher/__init__.py computes it
    f_script            \* delta_SOL as src/app/watcher.py computes it

obs_vars == <<pc, max_events, threshold_SOL, ws, count, sol_changes_accum, sig,
              ret, in_flight, delivered, sent, lookups, info_log, connected_log,
              error_log, extract_calls, steps>>
ext_vars == <<x_pc, x_meta, x_keys, x_out>>
flt_vars == <<f_pc, f_delta, f_pkg, f_script>>
vars == <<obs_vars, ext_vars, flt_vars>>

-----------------------------------------------------------------------------
(* Bounds *)

\* longest balance snapshot / account-key list
MaxAccounts == 2
\* most notifications the stream delivers to one run
MaxNotifs == 3
\* largest max_events argument
MaxEventsArg == 2

(* Program constants *)

LAMPORTS_PER_SOL == 1000000000

-----------------------------------------------------------------------------
(* Arithmetic helpers *)

Abs(n) == IF n < 0 THEN -n ELSE n

Min(a, b) == IF a <= b THEN a ELSE b

RECURSIVE Gcd(_, _)
Gcd(a, b) == IF b = 0 THEN a ELSE Gcd(b, a % b)

\* Python true division int / int-valued float: the quotient as an exact
\* fraction in lowest terms with a positive denominator.  For the magnitudes
\* of the model (and any |n| < 2^52) distinct quotients n / 10^9 are distinct
\* doubles and the rounding is monotone, so comparing the exact fractions
\* decides the same as comparing the doubles.
TrueDiv(n, d) ==
    LET g == Gcd(Abs(n), d)
    IN  [num |-> n \div g, den |-> d \div g]

\* abs() of a quotient
FAbs(q) == [num |-> Abs(q.num), den |-> q.den]

\* a >= b on quotients (denominators positive)
FGe(a, b) == a.num * b.den >= b.num * a.den

-----------------------------------------------------------------------------
(* Values *)

\* lamport balances and fees of the snapshots
Balances == {0, 500, 1500}
Fees == {500, 1000}

\* Pubkey values (by their last byte) and str(Pubkey): the base58 digit
Pubkeys == {1, 2}
Base58Digit == <<"2", "3", "4">>
PubkeyStr(k) == Base58Digit[k]

SeqsUpTo(S, n) == UNION {[1..m -> S] : m \in 0..n}

Metas(n) ==
    [pre_balances : SeqsUpTo(Balances, n),
     post_balances : SeqsUpTo(Balances, n),
     fee : Fees]

\* what the caller of monitor_solana gets: nothing yet, the returned list,
\* or the exception that left the coroutine
NoOutcome == [kind |-> "none", value |-> <<>>, exc |-> ""]
Returned(v) == [kind |-> "returned", value |-> v, exc |-> ""]
Raised(exc) == [kind |-> "raised", value |-> <<>>, exc |-> exc]

-----------------------------------------------------------------------------
(* extract_sol_changes *)

\* variant for the reason claims: the fee test without the index-0 condition
Reason_anyIndex(i, delta, fee) ==
    IF delta < 0 /\ Abs(delta) = fee THEN "fee"
    ELSE IF delta < 0 THEN "sent SOL or fee"
    ELSE "received SOL"

\* the reason chain of one changed index (i is the 0-based index)
Reason(i, delta, fee) ==
    IF i = 0 /\ delta < 0 /\ Abs(delta) = fee THEN "fee"
    ELSE IF delta < 0 THEN "sent SOL or fee"
    ELSE "received SOL"

\* variant for the well-formedness claim: the sign test the other way round
Direction_inverted(delta) == IF delta < 0 THEN "gain" ELSE "loss"

Direction(delta) == IF delta > 0 THEN "gain" ELSE "loss"

\* the dict appended for index i
Change(i, before, after, fee, account_keys) ==
    LET delta == after - before
    IN  [account        |-> PubkeyStr(account_keys[i + 1]),
         delta_lamports |-> delta,
         delta_SOL      |-> TrueDiv(delta, LAMPORTS_PER_SOL),
         direction      |-> Direction(delta),
         reason         |-> Reason(i, delta, fee)]

\* the indices enumerate(zip(pre, post)) visits: 0 .. min(len) - 1
ZipLen(pre, post) == Min(Len(pre), Len(post))

\* the 0-based indices where the for loop enters the if
Changed(pre, post) == {i \in 0..(ZipLen(pre, post) - 1) : pre[i + 1] # post[i + 1]}

\* variant for the independence claim: the fee test applied to the first
\* event built instead of index 0
RECURSIVE ExtractFrom_feeByPosition(_, _, _, _, _, _)
ExtractFrom_feeByPosition(i, pre, post, fee, account_keys, acc) ==
    IF i >= ZipLen(pre, post) THEN acc
    ELSE IF pre[i + 1] # post[i + 1]
         THEN ExtractFrom_feeByPosition(i + 1, pre, post, fee, account_keys,
                  Append(acc, [Change(i, pre[i + 1], post[i + 1], fee, account_keys)
                                  EXCEPT !.reason = Reason(Len(acc), post[i + 1] - pre[i + 1], fee)]))
         ELSE ExtractFrom_feeByPosition(i + 1, pre, post, fee, account_keys, acc)

\* variant for the bijection claim: the loop with "if after > before"
RECURSIVE ExtractFrom_gainsOnly(_, _, _, _, _, _)
ExtractFrom_gainsOnly(i, pre, post, fee, account_keys, acc) ==
    IF i >= ZipLen(pre, post) THEN acc
    ELSE IF pre[i + 1] < post[i + 1]
         THEN ExtractFrom_gainsOnly(i + 1, pre, post, fee, account_keys,
                          Append(acc, Change(i, pre[i + 1], post[i + 1], fee, account_keys)))
         ELSE ExtractFrom_gainsOnly(i + 1, pre, post, fee, account_keys, acc)

\* the loop from index i on, having built acc: the finished list
RECURSIVE ExtractFrom(_, _, _, _, _, _)
ExtractFrom(i, pre, post, fee, account_keys, acc) ==
    IF i >= ZipLen(pre, post) THEN acc
    ELSE IF pre[i + 1] # post[i + 1]
         THEN ExtractFrom(i + 1, pre, post, fee, account_keys,
                          Append(acc, Change(i, pre[i + 1], post[i + 1], fee, account_keys)))
         ELSE ExtractFrom(i + 1, pre, post, fee, account_keys, acc)

\* account_keys[i] raises IndexError at a changed index beyond the key list
ExtractRaises(meta, account_keys) ==
    \E i \in Changed(meta.pre_balances, meta.post_balances) : i >= Len(account_keys)

\* the call: [raised |-> TRUE] or [raised |-> FALSE, value |-> the list]
extract_sol_changes(meta, account_keys) ==
    IF ExtractRaises(meta, account_keys)
    THEN [raised |-> TRUE, value |-> <<>>]
    ELSE [raised |-> FALSE,
          value |-> ExtractFrom(0, meta.pre_balances, meta.post_balances,
                                meta.fee, account_keys, <<>>)]

-----------------------------------------------------------------------------
(* Specification of one extractor call *)

ObsOff ==
    /\ pc = "off" /\ max_events = 0 /\ threshold_SOL = TrueDiv(0, 1)
    /\ ws = "none" /\ count = 0 /\ sol_changes_accum = <<>> /\ sig = 0
    /\ ret = NoOutcome /\ in_flight = "" /\ delivered = <<>> /\ sent = <<>>
    /\ lookups = 0 /\ info_log = <<>> /\ connected_log = 0 /\ error_log = 0
    /\ extract_calls = 0 /\ steps = 0

\* no float division under way
NoDouble == [neg |-> FALSE, m |-> <<>>, e |-> 0]
FltOff ==
    /\ f_pc = "off" /\ f_delta = <<>> /\ f_pkg = NoDouble /\ f_script = NoDouble

InitExtract ==
    /\ ObsOff
    /\ FltOff
    /\ x_pc = "call"
    /\ x_meta \in Metas(MaxAccounts)
    /\ x_keys \in SeqsUpTo(Pubkeys, MaxAccounts)
    /\ x_out = <<>>

ExtractCall ==
    /\ x_pc = "call"
    /\ LET r == extract_sol_changes(x_meta, x_keys)
       IN  /\ x_pc' = IF r.raised THEN "raised" ELSE "returned"
           /\ x_out' = r.value
    /\ UNCHANGED <<x_meta, x_keys, obs_vars, flt_vars>>

NextExtract == ExtractCall

SpecExtract == InitExtract /\ [][NextExtract]_vars

-----------------------------------------------------------------------------
(* monitor_solana: the environment *)

\* what ws.recv() hands over: text that json.loads rejects, JSON without
\* data["params"]["result"] (e.g. the subscription confirmation), JSON whose
\* value has no "signature", a signature Signature.from_string rejects, or a
\* well-formed log notification
MsgKinds == {"unparsable", "no_params", "no_signature", "bad_signature", "valid"}
Malformed == {"no_params", "no_signature", "bad_signature"}

NoMeta == [pre_balances |-> <<>>, post_balances |-> <<>>, fee |-> 0]

Reply(kind, meta, account_keys) ==
    [kind |-> kind, meta |-> meta, account_keys |-> account_keys]

NoReply == Reply("pending", NoMeta, <<>>)

\* transactions the lookup service returns: a two-account transaction whose
\* fee payer holds 1500 and loses 0, 500 (the fee) or 1000 lamports and whose
\* second account gains 0, 500 or 1000; an empty transaction; one with too
\* few account keys; one with too few post balances
ObsPre == <<1500, 500>>
ObsPosts == {<<a, b>> : a \in {1500, 1000, 500}, b \in {500, 1000, 1500}}
ObsMeta(pre, post) == [pre_balances |-> pre, post_balances |-> post, fee |-> 500]
ObsTxs ==
    {Reply("tx", ObsMeta(ObsPre, q), <<1, 2>>) : q \in ObsPosts}
    \cup {Reply("tx", ObsMeta(<<>>, <<>>), <<>>),
          Reply("tx", ObsMeta(ObsPre, <<500, 1500>>), <<1>>),
          Reply("tx", ObsMeta(ObsPre, <<500>>), <<1, 2>>)}

\* replies of client.get_transaction: it raises, its value is None, the
\* transaction has no meta, or a transaction
Replies ==
    {Reply("error", NoMeta, <<>>), Reply("null", NoMeta, <<>>), Reply("no_meta", NoMeta, <<>>)}
    \cup ObsTxs

\* threshold_SOL arguments: 0.0 and 0.000001
Thresholds == {TrueDiv(0, 1), TrueDiv(1, 1000000)}

MaxEventsArgs == (-1)..MaxEventsArg

-----------------------------------------------------------------------------
(* monitor_solana: the loop body *)

\* variant for the threshold claim: a strict comparison
Qualifies_strict(c, threshold) == ~FGe(threshold, FAbs(c.delta_SOL))

\* [c for c in changes if abs(c["delta_SOL"]) >= threshold_SOL]
Qualifies(c, threshold) == FGe(FAbs(c.delta_SOL), threshold)
Filter(changes, threshold) == SelectSeq(changes, LAMBDA c : Qualifies(c, threshold))

\* variant for the ordering claim: new events put in front
Extend_prepend(acc, filtered) == filtered \o acc

\* sol_changes_accum.extend(filtered)
Extend(acc, filtered) == acc \o filtered

\* count += 1
Bump(c) == c + 1

\* variant for the counter claim: count += len(filtered)
Process_countsEvents(reply, c, acc, threshold) ==
    LET r == extract_sol_changes(reply.meta, reply.account_keys)
        filtered == Filter(r.value, threshold)
    IN  IF reply.kind = "null"
        THEN [count |-> c, accum |-> acc, info |-> <<>>, errors |-> 0, extracts |-> 0]
        ELSE IF reply.kind = "error"
        THEN [count |-> c, accum |-> acc, info |-> <<>>, errors |-> 1, extracts |-> 0]
        ELSE IF reply.kind = "no_meta" \/ r.raised
        THEN [count |-> c, accum |-> acc, info |-> <<>>, errors |-> 1, extracts |-> 1]
        ELSE [count |-> c + Len(filtered), accum |-> Extend(acc, filtered),
              info |-> filtered, errors |-> 0, extracts |-> 1]

\* variant for the silent-skip claim: a reply of None handled as an error
Process_nullLogged(reply, c, acc, threshold) ==
    LET r == extract_sol_changes(reply.meta, reply.account_keys)
        filtered == Filter(r.value, threshold)
    IN  IF reply.kind \in {"null", "error"}
        THEN [count |-> c, accum |-> acc, info |-> <<>>, errors |-> 1, extracts |-> 0]
        ELSE IF reply.kind = "no_meta" \/ r.raised
        THEN [count |-> c, accum |-> acc, info |-> <<>>, errors |-> 1, extracts |-> 1]
        ELSE IF filtered # <<>>
        THEN [count |-> c + 1, accum |-> Extend(acc, filtered),
              info |-> filtered, errors |-> 0, extracts |-> 1]
        ELSE [count |-> c, accum |-> acc, info |-> <<>>, errors |-> 0, extracts |-> 1]

\* the try body from tx = tx_resp.value on: what one lookup reply does to
\* (count, accumulator, info log, error log, extractor calls).  A reply of
\* None continues before the extractor; a failed lookup never reaches it; a
\* transaction without meta fails inside it, at meta.pre_balances.
Process(reply, c, acc, threshold) ==
    LET r == extract_sol_changes(reply.meta, reply.account_keys)
        filtered == Filter(r.value, threshold)
    IN  IF reply.kind = "null"
        THEN [count |-> c, accum |-> acc, info |-> <<>>, errors |-> 0, extracts |-> 0]
        ELSE IF reply.kind = "error"
        THEN [count |-> c, accum |-> acc, info |-> <<>>, errors |-> 1, extracts |-> 0]
        ELSE IF reply.kind = "no_meta" \/ r.raised
        THEN [count |-> c, accum |-> acc, info |-> <<>>, errors |-> 1, extracts |-> 1]
        ELSE IF filtered # <<>>
        THEN [count |-> Bump(c), accum |-> Extend(acc, filtered),
              info |-> filtered, errors |-> 0, extracts |-> 1]
        ELSE [count |-> c, accum |-> acc, info |-> <<>>, errors |-> 0, extracts |-> 1]

\* variant for the non-positive max_events claim: the body runs once before
\* the test
Continues_doWhile(c) == c < max_events \/ c = 0

\* variant for the termination claim: "while count <= max_events"
Continues_offByOne(c) == c <= max_events

\* "while count < max_events"
Continues(c) == c < max_events

\* the while test after an iteration (or before the first): wait for the next
\* notification, or leave the loop and enter the exit of the async with
WhileTest(c, acc) ==
    /\ pc' = IF Continues(c) THEN "recv" ELSE "closing"
    /\ UNCHANGED <<ws, ret, in_flight>>

\* the loop as a function of the notifications it is given, from counter c
\* and accumulator acc: the (count, accumulator) it stops with.  It stops
\* when the while test fails, when the notifications run out, or at text
\* that json.loads rejects.
RECURSIVE RunLoop(_, _, _)
RunLoop(d, c, acc) ==
    IF ~Continues(c) \/ d = <<>> THEN [count |-> c, accum |-> acc]
    ELSE IF Head(d).msg = "unparsable" THEN [count |-> c, accum |-> acc]
    ELSE IF Head(d).msg \in Malformed THEN RunLoop(Tail(d), c, acc)
    ELSE LET p == Process(Head(d).reply, c, acc, threshold_SOL)
         IN  RunLoop(Tail(d), p.count, p.accum)

\* variant for the release claim: the exception leaves with the socket as it is
Propagate_leak(exc) ==
    /\ pc' = "raised"
    /\ ret' = Raised(exc)
    /\ UNCHANGED <<ws, in_flight>>

\* an exception is raised in monitor_solana: inside the async with it enters
\* the exit of the block, before it (websockets.connect itself raised) it
\* reaches the caller at once
Propagate(exc) ==
    IF ws = "open"
    THEN /\ pc' = "closing"
         /\ in_flight' = exc
         /\ UNCHANGED <<ws, ret>>
    ELSE /\ pc' = "raised"
         /\ ret' = Raised(exc)
         /\ UNCHANGED <<ws, in_flight>>

-----------------------------------------------------------------------------
(* monitor_solana: the actions *)

ExtOff ==
    /\ x_pc = "off" /\ x_meta = NoMeta /\ x_keys = <<>> /\ x_out = <<>>
    /\ FltOff

Init ==
    /\ pc = "start"
    /\ max_events \in MaxEventsArgs
    /\ threshold_SOL \in Thresholds
    /\ ws = "none"
    /\ count = 0
    /\ sol_changes_accum = <<>>
    /\ sig = 0
    /\ ret = NoOutcome
    /\ in_flight = ""
    /\ delivered = <<>>
    /\ sent = <<>>
    /\ lookups = 0
    /\ info_log = <<>>
    /\ connected_log = 0
    /\ error_log = 0
    /\ extract_calls = 0
    /\ steps = 0
    /\ ExtOff

\* async with websockets.connect(url) as ws
Connect ==
    /\ pc = "start"
    /\ ws' = "open"
    /\ pc' = "subscribe"
    /\ UNCHANGED <<max_events, threshold_SOL, count, sol_changes_accum, sig,
                   ret, in_flight, delivered, sent, lookups, info_log,
                   connected_log, error_log, extract_calls, steps, ext_vars,
                   flt_vars>>

\* websockets.connect raises: nothing was opened
ConnectFail ==
    /\ pc = "start"
    /\ Propagate("ConnectError")
    /\ UNCHANGED <<max_events, threshold_SOL, count, sol_changes_accum, sig,
                   delivered, sent, lookups, info_log, connected_log,
                   error_log, extract_calls, steps, ext_vars, flt_vars>>

\* await ws.send(json.dumps(req)); count = 0; the first while test
Subscribe ==
    /\ pc = "subscribe"
    /\ sent' = Append(sent, "logsSubscribe")
    /\ connected_log' = connected_log + 1
    /\ count' = 0
    /\ WhileTest(0, sol_changes_accum)
    /\ UNCHANGED <<max_events, threshold_SOL, sol_changes_accum, sig,
                   delivered, lookups, info_log, error_log,
                   extract_calls, steps, ext_vars, flt_vars>>

\* ws.send raises
SubscribeFail ==
    /\ pc = "subscribe"
    /\ Propagate("ConnectionClosed")
    /\ UNCHANGED <<max_events, threshold_SOL, count, sol_changes_accum, sig,
                   delivered, sent, lookups, info_log, connected_log,
                   error_log, extract_calls, steps, ext_vars, flt_vars>>

\* msg = await ws.recv(); data = json.loads(msg) raises JSONDecodeError,
\* outside the try
RecvUnparsable ==
    /\ pc = "recv"
    /\ Len(delivered) < MaxNotifs
    /\ delivered' = Append(delivered, [msg |-> "unparsable", reply |-> NoReply])
    /\ Propagate("JSONDecodeError")
    /\ UNCHANGED <<max_events, threshold_SOL, count, sol_changes_accum, sig,
                   sent, lookups, info_log, connected_log, error_log,
                   extract_calls, steps, ext_vars, flt_vars>>

\* variant for the malformed-notification claim: the lookups sit outside the try
RecvMalformed_fatal ==
    /\ pc = "recv"
    /\ Len(delivered) < MaxNotifs
    /\ \E m \in Malformed :
          delivered' = Append(delivered, [msg |-> m, reply |-> NoReply])
    /\ Propagate("KeyError")
    /\ UNCHANGED <<max_events, threshold_SOL, count, sol_changes_accum, sig,
                   sent, lookups, info_log, connected_log, error_log,
                   extract_calls, steps, ext_vars, flt_vars>>

\* variant for the interleaving claim: the counter moves for every notification
\* handled, also in the except branch
RecvMalformed_counted ==
    /\ pc = "recv"
    /\ Len(delivered) < MaxNotifs
    /\ \E m \in Malformed :
          delivered' = Append(delivered, [msg |-> m, reply |-> NoReply])
    /\ error_log' = error_log + 1
    /\ steps' = steps + 1
    /\ count' = count + 1
    /\ WhileTest(count + 1, sol_changes_accum)
    /\ UNCHANGED <<max_events, threshold_SOL, sol_changes_accum, sig, sent,
                   lookups, info_log, connected_log, extract_calls, ext_vars,
                   flt_vars>>

\* the message parses, and data["params"]["result"], ["value"]["signature"]
\* or Signature.from_string raises inside the try: logged, continue
RecvMalformed ==
    /\ pc = "recv"
    /\ Len(delivered) < MaxNotifs
    /\ \E m \in Malformed :
          delivered' = Append(delivered, [msg |-> m, reply |-> NoReply])
    /\ error_log' = error_log + 1
    /\ steps' = steps + 1
    /\ WhileTest(count, sol_changes_accum)
    /\ UNCHANGED <<max_events, threshold_SOL, count, sol_changes_accum, sig,
                   sent, lookups, info_log, connected_log, extract_calls,
                   ext_vars, flt_vars>>

\* variant for the sequential-processing claim: the lookup is started and the
\* loop goes back to ws.recv() without waiting for it
RecvValid_fanout ==
    /\ pc = "recv"
    /\ Len(delivered) < MaxNotifs
    /\ delivered' = Append(delivered, [msg |-> "valid", reply |-> NoReply])
    /\ sig' = Len(delivered) + 1
    /\ lookups' = lookups + 1
    /\ pc' = "recv"
    /\ UNCHANGED <<max_events, threshold_SOL, ws, count, sol_changes_accum,
                   ret, in_flight, sent, info_log, connected_log, error_log,
                   extract_calls, steps, ext_vars, flt_vars>>

\* the message carries a signature: client.get_transaction(sig, ...) is issued
RecvValid ==
    /\ pc = "recv"
    /\ Len(delivered) < MaxNotifs
    /\ delivered' = Append(delivered, [msg |-> "valid", reply |-> NoReply])
    /\ sig' = Len(delivered) + 1
    /\ lookups' = lookups + 1
    /\ pc' = "lookup"
    /\ UNCHANGED <<max_events, threshold_SOL, ws, count, sol_changes_accum,
                   ret, in_flight, sent, info_log, connected_log, error_log,
                   extract_calls, steps, ext_vars, flt_vars>>

\* ws.recv() raises: the stream closed or failed
RecvClosed ==
    /\ pc = "recv"
    /\ Propagate("ConnectionClosed")
    /\ UNCHANGED <<max_events, threshold_SOL, count, sol_changes_accum, sig,
                   delivered, sent, lookups, info_log, connected_log,
                   error_log, extract_calls, steps, ext_vars, flt_vars>>

\* get_transaction answers; the rest of the try body, then the while test
Lookup ==
    /\ pc = "lookup"
    /\ \E reply \in Replies :
          LET p == Process(reply, count, sol_changes_accum, threshold_SOL)
          IN  /\ delivered' = [delivered EXCEPT ![Len(delivered)].reply = reply]
              /\ count' = p.count
              /\ sol_changes_accum' = p.accum
              /\ info_log' = info_log \o p.info
              /\ error_log' = error_log + p.errors
              /\ extract_calls' = extract_calls + p.extracts
              /\ WhileTest(p.count, p.accum)
    /\ steps' = steps + 1
    /\ UNCHANGED <<max_events, threshold_SOL, sig, sent, lookups, connected_log,
                   ext_vars, flt_vars>>

\* the exit of "async with websockets.connect(url) as ws": __aexit__ closes
\* the socket, and then the accumulator is returned (or the exception that
\* was leaving the block reaches the caller)
Close ==
    /\ pc = "closing"
    /\ ws' = "closed"
    /\ pc' = IF in_flight = "" THEN "done" ELSE "raised"
    /\ ret' = IF in_flight = "" THEN Returned(sol_changes_accum) ELSE Raised(in_flight)
    /\ UNCHANGED <<max_events, threshold_SOL, count, sol_changes_accum, sig,
                   in_flight, delivered, sent, lookups, info_log, connected_log,
                   error_log, extract_calls, steps, ext_vars, flt_vars>>

Next ==
    \/ Connect
    \/ ConnectFail
    \/ Subscribe
    \/ SubscribeFail
    \/ RecvUnparsable
    \/ RecvMalformed
    \/ RecvValid
    \/ RecvClosed
    \/ Lookup
    \/ Close

Spec == Init /\ [][Next]_vars

-----------------------------------------------------------------------------
(* Vocabulary of the properties *)

Last(s) == s[Len(s)]

Terminal == {"done", "raised"}

\* exceptions that are the stream itself failing
StreamErrors == {"ConnectError", "ConnectionClosed"}

\* the events a lookup reply contributes under a threshold: the extractor's
\* events that pass it, none when there is no transaction or the extractor fails
YieldOf(reply, threshold) ==
    IF reply.kind = "tx" /\ ~ExtractRaises(reply.meta, reply.account_keys)
    THEN Filter(extract_sol_changes(reply.meta, reply.account_keys).value, threshold)
    ELSE <<>>

\* the delivered notifications that qualify
QualSet(d, threshold) == {i \in DOMAIN d : YieldOf(d[i].reply, threshold) # <<>>}
NumQual(d, threshold) == Cardinality(QualSet(d, threshold))

\* the yields of the first n qualifying notifications of d, concatenated
RECURSIVE FirstN(_, _, _)
FirstN(d, n, threshold) ==
    IF n <= 0 \/ d = <<>> THEN <<>>
    ELSE LET y == YieldOf(Head(d).reply, threshold)
         IN  IF y = <<>> THEN FirstN(Tail(d), n, threshold)
             ELSE y \o FirstN(Tail(d), n - 1, threshold)

\* a step that finishes the processing of a notification answered by a lookup
LookupStep == pc = "lookup" /\ pc' # "lookup"

\* the threshold test on lamports: |delta| >= threshold * 10^9
PassesLamports(c, threshold) ==
    Abs(c.delta_lamports) * threshold.den >= threshold.num * LAMPORTS_PER_SOL

\* the k-th smallest element of a set of indices (k from 1)
KthOf(S, k) == CHOOSE i \in S : Cardinality({j \in S : j < i}) = k - 1

EqualLengths ==
    /\ Len(x_meta.pre_balances) = Len(x_meta.post_balances)
    /\ Len(x_meta.pre_balances) = Len(x_keys)

\* the 0-based indices whose balance differs, stated on the call's arguments
DiffIdx == {i \in 0..(Len(x_meta.pre_balances) - 1) :
               x_meta.pre_balances[i + 1] # x_meta.post_balances[i + 1]}

-----------------------------------------------------------------------------
(* Properties of monitor_solana (specification Spec) *)

C1_Step ==
    /\ count' = count \/ count' = count + 1
    /\ (count' = count + 1) <=>
          (LookupStep /\ YieldOf(Last(delivered').reply, threshold_SOL) # <<>>)
    /\ (count' = count + 1) <=> (Len(sol_changes_accum') > Len(sol_changes_accum))
    /\ (count' = count) => (sol_changes_accum' = sol_changes_accum)

\* C1: the counter advances by exactly 1 in the steps that process a
\* notification whose filtered event list is non-empty, however many events
\* it holds, and in no other step; the accumulator grows in exactly those
\* steps; and with max_events >= 1, 0 <= count <= max_events and the
\* accumulator holds at least count events.
C1_CountPerNotification ==
    /\ [](max_events >= 1 =>
            /\ 0 <= count /\ count <= max_events
            /\ Len(sol_changes_accum) >= count)
    /\ [][C1_Step]_vars

\* C1 witness: one notification contributed two events and count is 1, after
\* another notification that contributed none
C1_Witness ==
    /\ count = 1
    /\ Len(sol_changes_accum) = 2
    /\ Len(delivered) = 2
    /\ YieldOf(delivered[1].reply, threshold_SOL) = <<>>
    /\ Len(YieldOf(delivered[2].reply, threshold_SOL)) = 2

\* C2: once max_events (>= 1) qualifying notifications have been delivered,
\* the run is leaving the async with or has returned, with no exception, and
\* what it holds and returns is exactly the concatenation, in delivery order,
\* of the filtered events of the first max_events qualifying notifications;
\* the last notification received is the max_events-th qualifying one
\* (nothing was received after it) and every lookup issued belongs to a
\* received notification that carried a signature.
C2_FirstNInOrder ==
    (max_events >= 1 /\ NumQual(delivered, threshold_SOL) >= max_events) =>
        /\ pc \in {"closing", "done"}
        /\ in_flight = ""
        /\ sol_changes_accum = FirstN(delivered, max_events, threshold_SOL)
        /\ pc = "done" => ret = Returned(FirstN(delivered, max_events, threshold_SOL))
        /\ NumQual(delivered, threshold_SOL) = max_events
        /\ Len(delivered) \in QualSet(delivered, threshold_SOL)
        /\ lookups = Cardinality({i \in DOMAIN delivered : delivered[i].msg = "valid"})

\* C2 witness: max_events = 2 reached by the 1st and 3rd notification, with a
\* non-qualifying one between them, and different events from the two
C2_Witness ==
    /\ pc = "done"
    /\ max_events = 2
    /\ Len(delivered) = 3
    /\ QualSet(delivered, threshold_SOL) = {1, 3}
    /\ delivered[1].reply # delivered[3].reply
    /\ Len(ret.value) >= 3

\* C3 (as claimed): no single notification ends the run; the loop ends only
\* because count reached max_events or because the stream itself failed.
C3_OnlyCountOrStreamEndsLoop ==
    /\ pc = "done" => count >= max_events
    /\ pc = "raised" => ret.exc \in StreamErrors

\* C4 (as claimed): when the stream closes while the run waits for a
\* notification, the run ends returning the events accumulated so far.
C4_PartialResultReturned ==
    [][(pc = "closing" /\ in_flight = "ConnectionClosed" /\ sent # <<>>
            /\ pc' \in Terminal) =>
          ret' = Returned(sol_changes_accum)]_vars

\* C5: in every terminal state of monitor_solana the connection is not open,
\* and it is closed whenever it had been opened.
C5_SubscriptionReleased ==
    pc \in Terminal =>
        /\ ws # "open"
        /\ (pc = "done" \/ sent # <<>> \/ ret.exc # "ConnectError") => ws = "closed"

\* C5 witness: an exception escaped the loop after a notification was
\* received, and the connection is closed
C5_Witness ==
    /\ pc = "raised"
    /\ delivered # <<>>
    /\ ws = "closed"

\* C6: a notification that parses but lacks the signature path, or whose
\* signature does not decode, logs one error, leaves count and the
\* accumulator unchanged, issues no lookup and no extraction, and the loop
\* waits for the next notification with the connection open.
C6_MalformedSkipped ==
    [][(pc = "recv" /\ Len(delivered') = Len(delivered) + 1
            /\ Last(delivered').msg \in Malformed) =>
          /\ count' = count
          /\ sol_changes_accum' = sol_changes_accum
          /\ info_log' = info_log
          /\ error_log' = error_log + 1
          /\ lookups' = lookups
          /\ extract_calls' = extract_calls
          /\ pc' = "recv"
          /\ ws' = "open"
          /\ ret' = ret]_vars

\* C6 witness: a malformed notification was skipped after a qualifying one,
\* and the run is waiting again
C6_Witness ==
    /\ pc = "recv"
    /\ Len(delivered) = 2
    /\ delivered[2].msg \in Malformed
    /\ count = 1
    /\ error_log = 1

\* C7: when the lookup returns no transaction the extractor is not called,
\* nothing is logged, count and the accumulator are unchanged, and the loop
\* waits for the next notification.
C7_NullLookupSilent ==
    [][(LookupStep /\ Last(delivered').reply.kind = "null") =>
          /\ extract_calls' = extract_calls
          /\ error_log' = error_log
          /\ info_log' = info_log
          /\ count' = count
          /\ sol_changes_accum' = sol_changes_accum
          /\ pc' = "recv"
          /\ ws' = "open"]_vars

\* C7 witness: a lookup returned no transaction after a qualifying
\* notification, and the run is waiting again with nothing logged as error
C7_Witness ==
    /\ pc = "recv"
    /\ Len(delivered) = 2
    /\ delivered[2].reply.kind = "null"
    /\ count = 1
    /\ error_log = 0

C8_Appended(reply) ==
    LET r == extract_sol_changes(reply.meta, reply.account_keys)
    IN  IF reply.kind = "tx" /\ ~r.raised
        THEN SelectSeq(r.value, LAMBDA c : PassesLamports(c, threshold_SOL))
        ELSE <<>>

\* C8: every accumulated event has abs(delta_SOL) >= threshold_SOL and
\* abs(delta_lamports) >= threshold_SOL * 10^9; each processed notification
\* appends exactly the extractor's events that pass the threshold, in the
\* extractor's order; threshold 0 admits every change, and threshold
\* 0.000001 excludes a change of 500 lamports.
C8_ThresholdFilter ==
    /\ [](\A k \in DOMAIN sol_changes_accum :
            LET e == sol_changes_accum[k]
            IN  /\ FGe(FAbs(e.delta_SOL), threshold_SOL)
                /\ PassesLamports(e, threshold_SOL)
                /\ threshold_SOL = TrueDiv(1, 1000000) => Abs(e.delta_lamports) # 500)
    /\ [][LookupStep =>
            /\ sol_changes_accum' =
                  sol_changes_accum \o C8_Appended(Last(delivered').reply)
            /\ (threshold_SOL = TrueDiv(0, 1) /\ Last(delivered').reply.kind = "tx"
                    /\ ~ExtractRaises(Last(delivered').reply.meta,
                                      Last(delivered').reply.account_keys)) =>
                  sol_changes_accum' = sol_changes_accum \o
                      extract_sol_changes(Last(delivered').reply.meta,
                                          Last(delivered').reply.account_keys).value]_vars

\* C8 witness: under threshold 0.000001 a transaction with a 1000-lamport
\* loss and a 500-lamport gain contributed only the loss
C8_Witness ==
    /\ threshold_SOL = TrueDiv(1, 1000000)
    /\ Len(delivered) = 1
    /\ delivered[1].reply.kind = "tx"
    /\ delivered[1].reply.meta.post_balances = <<500, 1000>>
    /\ delivered[1].reply.account_keys = <<1, 2>>
    /\ Len(sol_changes_accum) = 1
    /\ sol_changes_accum[1].delta_lamports = -1000

-----------------------------------------------------------------------------
(* Properties of extract_sol_changes (specification SpecExtract) *)

\* C9: on equal-length arguments the call returns, with exactly one event
\* per index whose balances differ and none for other indices, in increasing
\* index order, each with account = str(account_keys[i]) and delta_lamports =
\* post[i] - pre[i]; so the list is empty when pre = post and when the
\* snapshot is empty.
C9_ChangedIndexBijection ==
    (x_pc # "call" /\ EqualLengths) =>
        /\ x_pc = "returned"
        /\ Len(x_out) = Cardinality(DiffIdx)
        /\ \A k \in DOMAIN x_out :
              LET i == KthOf(DiffIdx, k)
              IN  /\ x_out[k].account = PubkeyStr(x_keys[i + 1])
                  /\ x_out[k].delta_lamports =
                        x_meta.post_balances[i + 1] - x_meta.pre_balances[i + 1]
        /\ x_meta.pre_balances = x_meta.post_balances => x_out = <<>>
        /\ x_meta.pre_balances = <<>> => x_out = <<>>

\* C9 witness: two accounts, both changed, the first a loss and the second a
\* gain, returned as two events
C9_Witness ==
    /\ x_pc = "returned"
    /\ EqualLengths
    /\ x_meta.pre_balances = <<1500, 0>>
    /\ x_meta.post_balances = <<500, 1500>>
    /\ Len(x_out) = 2

\* the reasons of the events returned for a snapshot
ReasonsOf(pre, post, fee, keys) ==
    LET r == extract_sol_changes([pre_balances |-> pre, post_balances |-> post, fee |-> fee],
                                 keys).value
    IN  [k \in DOMAIN r |-> r[k].reason]

\* C10: the event of index i with delta = post[i] - pre[i] has reason "fee"
\* iff i = 0, delta < 0 and abs(delta) = fee; otherwise "sent SOL or fee" iff
\* delta < 0; otherwise "received SOL".  The two scenarios of the
\* specification give <<fee, received>> and <<sent or fee, received>>.
C10_ReasonClassification ==
    /\ (x_pc = "returned" /\ EqualLengths) =>
          \A k \in DOMAIN x_out :
              LET i == KthOf(DiffIdx, k)
                  delta == x_meta.post_balances[i + 1] - x_meta.pre_balances[i + 1]
                  isFee == i = 0 /\ delta < 0 /\ Abs(delta) = x_meta.fee
              IN  /\ x_out[k].reason = "fee" <=> isFee
                  /\ x_out[k].reason = "sent SOL or fee" <=> (~isFee /\ delta < 0)
                  /\ x_out[k].reason = "received SOL" <=> delta > 0
    /\ ReasonsOf(<<100, 50>>, <<90, 60>>, 10, <<1, 2>>) = <<"fee", "received SOL">>
    /\ ReasonsOf(<<100, 50, 0>>, <<85, 50, 15>>, 10, <<1, 2, 1>>)
          = <<"sent SOL or fee", "received SOL">>

\* C10 witness: both accounts lose exactly the fee; index 0 is "fee" and
\* index 1 is "sent SOL or fee"
C10_Witness ==
    /\ x_pc = "returned"
    /\ x_meta.fee = 500
    /\ x_meta.pre_balances = <<500, 500>>
    /\ x_meta.post_balances = <<0, 0>>
    /\ Len(x_out) = 2
    /\ x_out[1].reason = "fee"
    /\ x_out[2].reason = "sent SOL or fee"

-----------------------------------------------------------------------------
(* Properties: mismatched lengths, sequential processing *)

\* C11 (as claimed): a call whose pre-balance, post-balance and account-key
\* lists do not all have the same length ends in an error, never in a
\* returned list.
C11_MismatchSignalled ==
    (x_pc # "call" /\ ~EqualLengths) => x_pc = "raised"

\* the delivered notifications whose lookup has not been answered
Pending == {i \in DOMAIN delivered :
               delivered[i].msg = "valid" /\ delivered[i].reply = NoReply}

\* C12: the connection is opened once and never reopened; logsSubscribe is
\* sent exactly once, before any notification is received; at most one
\* lookup is outstanding, it is the lookup of the notification received
\* last, and a notification is received only when every earlier one has
\* been processed to the end.
C12_Sequential ==
    /\ [](/\ Len(sent) <= 1
          /\ (delivered # <<>> \/ pc \in {"recv", "lookup", "done"}) =>
                sent = <<"logsSubscribe">>
          /\ lookups = Cardinality({i \in DOMAIN delivered : delivered[i].msg = "valid"})
          /\ Cardinality(Pending) <= 1
          /\ Pending # {} <=> pc = "lookup"
          /\ pc = "lookup" => (Pending = {Len(delivered)} /\ sig = Len(delivered))
          /\ pc = "recv" => steps = Len(delivered))
    /\ [][/\ (ws' = "open" /\ ws # "open") => (ws = "none" /\ pc = "start")
          /\ Len(delivered') > Len(delivered) =>
                (pc = "recv" /\ Pending = {} /\ steps = Len(delivered)
                    /\ Len(delivered') = Len(delivered) + 1)
          /\ lookups' > lookups =>
                (lookups' = lookups + 1 /\ Pending' = {Len(delivered')})]_vars

\* C12 witness: the second notification's lookup is outstanding, the first
\* notification having been looked up and processed
C12_Witness ==
    /\ pc = "lookup"
    /\ Len(delivered) = 2
    /\ delivered[1].reply.kind = "tx"
    /\ Pending = {2}
    /\ lookups = 2
    /\ steps = 1

-----------------------------------------------------------------------------
(* Properties: one malformed notification among the others *)

\* the sequence s without its p-th element
Remove(s, p) == SubSeq(s, 1, p - 1) \o SubSeq(s, p + 1, Len(s))

Outcome == [count |-> count, accum |-> sol_changes_accum]

\* C13: whenever the run has processed every notification it received, its
\* count and accumulator are those of the loop run on the received stream,
\* and for every malformed notification in that stream they are also those
\* of the loop run on the stream without it: inserting one malformed
\* notification into a stream changes neither the count nor the result.
C13_MalformedInsertion ==
    (pc \in {"recv", "done"} /\ max_events >= 1) =>
        /\ RunLoop(delivered, 0, <<>>) = Outcome
        /\ \A p \in DOMAIN delivered :
              delivered[p].msg \in Malformed =>
                  RunLoop(Remove(delivered, p), 0, <<>>) = Outcome

\* C13 witness: a malformed notification between two qualifying ones, and
\* the count is 2
C13_Witness ==
    /\ pc = "done"
    /\ Len(delivered) = 3
    /\ delivered[2].msg \in Malformed
    /\ QualSet(delivered, threshold_SOL) = {1, 3}
    /\ count = 2
    /\ RunLoop(Remove(delivered, 2), 0, <<>>).count = 2

-----------------------------------------------------------------------------
(* Properties: independence of the other accounts *)

\* the 0-based indices of a snapshot whose balances differ
DiffOf(m) == {i \in 0..(Len(m.pre_balances) - 1) : m.pre_balances[i + 1] # m.post_balances[i + 1]}

\* the position, in the returned list, of the event of a changed index i
RankOf(m, i) == 1 + Cardinality({j \in DiffOf(m) : j < i})

\* the snapshots of the same length and fee that agree with m at index i
Variants(m, i) ==
    {m2 \in [pre_balances : [1..Len(m.pre_balances) -> Balances],
             post_balances : [1..Len(m.pre_balances) -> Balances],
             fee : {m.fee}] :
        /\ m2.pre_balances[i + 1] = m.pre_balances[i + 1]
        /\ m2.post_balances[i + 1] = m.post_balances[i + 1]}

\* C14: for two equal-length snapshots with the same fee that agree at index
\* i, whatever the other indices hold, account i is omitted from both
\* results or has the same account, delta, direction and reason in both.
C14_IndependentOfOthers ==
    (x_pc = "returned" /\ EqualLengths) =>
        \A i \in 0..(Len(x_keys) - 1) :
            \A m2 \in Variants(x_meta, i) :
                LET out2 == extract_sol_changes(m2, x_keys).value
                IN  /\ Len(out2) = Cardinality(DiffOf(m2))
                    /\ Len(x_out) = Cardinality(DiffOf(x_meta))
                    /\ i \in DiffOf(x_meta) <=> i \in DiffOf(m2)
                    /\ i \in DiffOf(x_meta) =>
                          x_out[RankOf(x_meta, i)] = out2[RankOf(m2, i)]

\* C14 witness: index 1 loses exactly the fee while index 0 is unchanged, so
\* the event of index 1 is the first of the list, and it is not a fee
C14_Witness ==
    /\ x_pc = "returned"
    /\ EqualLengths
    /\ x_meta.fee = 500
    /\ x_meta.pre_balances = <<500, 500>>
    /\ x_meta.post_balances = <<500, 0>>
    /\ Len(x_out) = 1
    /\ x_out[1].reason = "sent SOL or fee"

-----------------------------------------------------------------------------
(* A run whose stream stays open and keeps delivering well-formed           *)
(* notifications, whose lookups all return, and in which at least           *)
(* max_events notifications qualify among the MaxNotifs it can deliver      *)

InitLive ==
    /\ Init
    /\ max_events >= 1

\* a lookup reply that leaves enough notifications for max_events to qualify
LookupLive ==
    /\ Lookup
    /\ Last(delivered').reply.kind # "error"
    /\ MaxNotifs - Len(delivered') >= max_events - count'

NextLive ==
    \/ Connect
    \/ Subscribe
    \/ RecvValid
    \/ LookupLive
    \/ Close

\* Connect, Subscribe and Close are the coroutine's own steps, run by
\* asyncio.run;
\* fairness of RecvValid and LookupLive is the hypothesis that the stream
\* keeps delivering and every lookup returns
SpecLive ==
    /\ InitLive
    /\ [][NextLive]_vars
    /\ WF_vars(Connect)
    /\ WF_vars(Subscribe)
    /\ WF_vars(RecvValid)
    /\ WF_vars(LookupLive)
    /\ WF_vars(Close)

\* C15: under those hypotheses the run eventually leaves the loop and
\* returns with count = max_events; and as long as fewer than max_events
\* notifications have qualified it has not returned (there is no timeout).
C15_EventuallyReturns ==
    /\ <>(pc = "done" /\ count = max_events /\ ret.kind = "returned" /\ ws = "closed")
    /\ [](count < max_events => pc \notin Terminal)

\* C15 witness: the run returned with count = max_events = 2 after three
\* notifications, the first of which did not qualify
C15_Witness ==
    /\ pc = "done"
    /\ max_events = 2
    /\ count = 2
    /\ Len(delivered) = 3
    /\ QualSet(delivered, threshold_SOL) = {2, 3}

-----------------------------------------------------------------------------
(* Properties: well-formed events, non-positive max_events *)

\* C17: every event the extractor returns has a non-zero delta, direction
\* gain iff the delta is positive and loss iff it is negative, reason
\* "received SOL" iff gain and "fee" or "sent SOL or fee" iff loss; at most
\* one event of a call has reason "fee", and it is the first of the list
\* and the event of index 0.
C17_WellFormedEvents ==
    x_pc = "returned" =>
        /\ \A k \in DOMAIN x_out :
              LET ev == x_out[k]
              IN  /\ ev.delta_lamports # 0
                  /\ ev.direction \in {"gain", "loss"}
                  /\ ev.direction = "gain" <=> ev.delta_lamports > 0
                  /\ ev.direction = "loss" <=> ev.delta_lamports < 0
                  /\ ev.reason = "received SOL" <=> ev.direction = "gain"
                  /\ ev.reason \in {"fee", "sent SOL or fee"} <=> ev.direction = "loss"
                  /\ ev.reason = "fee" =>
                        /\ k = 1
                        /\ x_meta.pre_balances[1] # x_meta.post_balances[1]
                        /\ ev.delta_lamports = x_meta.post_balances[1] - x_meta.pre_balances[1]
        /\ Cardinality({k \in DOMAIN x_out : x_out[k].reason = "fee"}) <= 1

\* C17 witness: a fee event at index 0 followed by a gain
C17_Witness ==
    /\ x_pc = "returned"
    /\ Len(x_out) = 2
    /\ x_out[1].reason = "fee"
    /\ x_out[1].direction = "loss"
    /\ x_out[2].direction = "gain"
    /\ x_out[2].reason = "received SOL"

\* C18: with max_events <= 0 the connection is opened and the subscribe
\* request sent, no notification is received and no lookup issued, and the
\* run closes the connection and returns an empty list.
C18_NonPositiveMaxEvents ==
    max_events <= 0 =>
        /\ delivered = <<>>
        /\ lookups = 0
        /\ extract_calls = 0
        /\ pc \notin {"recv", "lookup"}
        /\ pc = "done" =>
              /\ sent = <<"logsSubscribe">>
              /\ ws = "closed"
              /\ ret = Returned(<<>>)
        /\ sent # <<>> => (pc \in {"closing", "done"} /\ in_flight = "")

\* C18 witness: the run with max_events = -1 has returned the empty list
C18_Witness ==
    /\ max_events = -1
    /\ pc = "done"
    /\ sent = <<"logsSubscribe">>
    /\ ws = "closed"
    /\ ret = Returned(<<>>)

-----------------------------------------------------------------------------
(* delta / LAMPORTS_PER_SOL and delta / 1e9 as Python computes them          *)
(*                                                                           *)
(* Lamport amounts are unsigned 64-bit values, beyond the integers of the    *)
(* model checker, so this part keeps an integer as its sequence of base-     *)
(* LimbBase digits, least significant first, without leading zeros, and a    *)
(* float as sign, 53-bit mantissa m (2^52 <= m < 2^53) and exponent e: the   *)
(* value m * 2^e.                                                            *)

LimbBase == 1000
MantissaBits == 53

\* number of lamport deltas drawn on each side
FloatSamples == 31

RECURSIVE BigTrim(_)
BigTrim(a) ==
    IF a = <<>> THEN <<>>
    ELSE IF a[Len(a)] = 0 THEN BigTrim(SubSeq(a, 1, Len(a) - 1))
    ELSE a

RECURSIVE BigFromInt(_)
BigFromInt(n) ==
    IF n = 0 THEN <<>> ELSE <<n % LimbBase>> \o BigFromInt(n \div LimbBase)

\* a * k + carry, for k and carry up to 2^16
RECURSIVE BigMulAdd(_, _, _)
BigMulAdd(a, k, carry) ==
    IF a = <<>> THEN BigFromInt(carry)
    ELSE LET t == Head(a) * k + carry
         IN  <<t % LimbBase>> \o BigMulAdd(Tail(a), k, t \div LimbBase)

BigLess(a, b) ==
    IF Len(a) # Len(b) THEN Len(a) < Len(b)
    ELSE \E i \in DOMAIN a :
            /\ a[i] < b[i]
            /\ \A j \in DOMAIN a : j > i => a[j] = b[j]

BigOdd(a) == a # <<>> /\ a[1] % 2 = 1

\* 2^k, sixteen bits at a time
RECURSIVE BigPow2(_)
BigPow2(k) ==
    IF k < 16 THEN BigFromInt(2^k) ELSE BigMulAdd(BigPow2(k - 16), 2^16, 0)

\* a mantissa m has 2^52 <= m < 2^53; below MantissaLow4 (MantissaLow16) it
\* is at least 4 (16) bits short
MantissaTop == BigPow2(MantissaBits)
MantissaLow == BigPow2(MantissaBits - 1)
MantissaLow4 == BigPow2(MantissaBits - 5)
MantissaLow16 == BigPow2(MantissaBits - 17)

\* the number of bits, 16, 4, 1 or 0, by which q may still be shifted up
ScaleStep(q) ==
    IF BigLess(q, MantissaLow16) THEN 16
    ELSE IF BigLess(q, MantissaLow4) THEN 4
    ELSE IF BigLess(q, MantissaLow) THEN 1
    ELSE 0

Limb(x, i) == IF i <= Len(x) THEN x[i] ELSE 0

\* quotient and remainder of x by LAMPORTS_PER_SOL = LimbBase^3: the limbs
\* above the third, and the three lowest limbs
DivByScale(x) ==
    [q |-> IF Len(x) > 3 THEN SubSeq(x, 4, Len(x)) ELSE <<>>,
     r |-> Limb(x, 1) + LimbBase * Limb(x, 2) + LimbBase * LimbBase * Limb(x, 3)]

\* round to nearest, ties to even: q with remainder r of a division by d
RoundEven(q, r, d) ==
    IF 2 * r > d \/ (2 * r = d /\ BigOdd(q)) THEN BigMulAdd(q, 1, 1) ELSE q

\* a mantissa that rounding carried to 2^53 is renormalised
Normalise(m, e) ==
    IF m = MantissaTop THEN [m |-> MantissaLow, e |-> e + 1] ELSE [m |-> m, e |-> e]

\* the correctly rounded quotient (x * 2^e) / 10^9 of a positive integer x:
\* x is scaled by powers of two (and e lowered) until the integer quotient
\* has 53 bits, and that quotient is rounded on the remainder
RECURSIVE DivRounded(_, _)
DivRounded(x, e) ==
    IF ScaleStep(DivByScale(x).q) > 0
    THEN DivRounded(BigMulAdd(x, 2^ScaleStep(DivByScale(x).q), 0),
                    e - ScaleStep(DivByScale(x).q))
    ELSE Normalise(RoundEven(DivByScale(x).q, DivByScale(x).r, LAMPORTS_PER_SOL), e)

\* floor(x / 2^t) of a positive integer x: up to three bits at a time,
\* x / 2^j is x * (LimbBase / 2^j) / LimbBase, and the division by LimbBase
\* drops the lowest limb
RECURSIVE ShiftRight(_, _)
ShiftRight(x, t) ==
    IF t = 0 \/ x = <<>> THEN x
    ELSE IF t >= 3 THEN ShiftRight(Tail(BigMulAdd(x, LimbBase \div 8, 0)), t - 3)
    ELSE Tail(BigMulAdd(x, LimbBase \div 2^t, 0))

\* the least t with n < 2^(53 + t), for n < 2^64 (balances are unsigned
\* 64-bit lamport amounts)
ShiftDown(n) ==
    CHOOSE t \in 0..11 :
        /\ BigLess(n, BigPow2(MantissaBits + t))
        /\ \A u \in 0..(t - 1) : ~BigLess(n, BigPow2(MantissaBits + u))

\* n % 2^t for t <= 12: 2^t divides LimbBase^4, so only the four lowest
\* limbs count, each weight reduced modulo 2^t first
ModPow2(n, t) ==
    (Limb(n, 1) + (LimbBase % 2^t) * Limb(n, 2)
        + ((LimbBase * LimbBase) % 2^t) * Limb(n, 3)
        + ((LimbBase * LimbBase * LimbBase) % 2^t) * Limb(n, 4)) % 2^t

\* n rounded to a multiple of 2^t, as a mantissa and exponent
RoundTo(n, t) ==
    Normalise(RoundEven(ShiftRight(n, t), ModPow2(n, t), 2^t), t)

\* n * 2^k with 2^52 <= n * 2^k, for 0 < n < 2^53
RECURSIVE ShiftUp(_, _)
ShiftUp(n, k) ==
    IF ScaleStep(n) > 0
    THEN ShiftUp(BigMulAdd(n, 2^ScaleStep(n), 0), k + ScaleStep(n))
    ELSE [m |-> n, e |-> -k]

\* float(n) of a positive integer n < 2^64: exact below 2^53, else rounded
\* to 53 bits
IntToFloat(n) ==
    IF BigLess(n, MantissaTop) THEN ShiftUp(n, 0) ELSE RoundTo(n, ShiftDown(n))

Signed(neg, f) == [neg |-> neg, m |-> f.m, e |-> f.e]

\* src/app/watcher/__init__.py: delta / LAMPORTS_PER_SOL, int / int, which
\* CPython rounds once from the exact quotient
PkgTrueDiv(delta) == Signed(delta.neg, DivRounded(delta.mag, 0))

\* src/app/watcher.py: delta / 1e9, int / float, which converts delta to a
\* float first and then divides the two floats
ScriptTrueDiv(delta) ==
    LET f == IntToFloat(delta.mag)
    IN  Signed(delta.neg, DivRounded(f.m, f.e))

\* lamport deltas: 1 .. FloatSamples, 2^53 .. 2^53 + FloatSamples and
\* 2^63 + 1024 * (0 .. FloatSamples), of either sign
FloatDeltas ==
    {[neg |-> b, mag |-> BigFromInt(k)] : b \in BOOLEAN, k \in 1..FloatSamples}
    \cup {[neg |-> b, mag |-> BigMulAdd(MantissaTop, 1, k)] :
             b \in BOOLEAN, k \in 0..FloatSamples}
    \cup {[neg |-> b, mag |-> BigMulAdd(BigPow2(63), 1, 1024 * k)] :
             b \in BOOLEAN, k \in 0..FloatSamples}

InitFloat ==
    /\ ObsOff
    /\ x_pc = "off" /\ x_meta = NoMeta /\ x_keys = <<>> /\ x_out = <<>>
    /\ f_pc = "call"
    /\ f_delta \in FloatDeltas
    /\ f_pkg = NoDouble
    /\ f_script = NoDouble

\* both modules compute delta_SOL for the same delta
FloatCall ==
    /\ f_pc = "call"
    /\ f_pc' = "done"
    /\ f_pkg' = PkgTrueDiv(f_delta)
    /\ f_script' = ScriptTrueDiv(f_delta)
    /\ UNCHANGED <<f_delta, obs_vars, ext_vars>>

NextFloat == FloatCall

SpecFloat == InitFloat /\ [][NextFloat]_vars

\* C16 (as claimed): the standalone script and the package return equal
\* events for every snapshot; in particular the delta_SOL the two compute
\* for the same delta_lamports is the same float.
C16_SameDeltaSOL ==
    f_pc = "done" => f_script = f_pkg

====
